---------------------------- MODULE Spec2Model ----------------------------
(***************************************************************************)
(* Model of the UNFCCC submissions scraper (src/main.py).                  *)
(*                                                                         *)
(* Text is modelled as a tuple of symbols: panel titles are tuples of      *)
(* characters, URLs are tuples of path tokens.  A DOM node or attribute    *)
(* that does not exist is Absent; Python's None is None.                   *)
(*                                                                         *)
(*   Spec    one run of main(), one action per step of the pipeline        *)
(*   SpecFn  the pure functions applied to inputs drawn from bounded sets  *)
(***************************************************************************)
EXTENDS Integers, Sequences, FiniteSets, TLC

VARIABLES
    call,             \* SpecFn: the function call under evaluation
    ret,              \* SpecFn: its outcome
    pc,               \* position of the run in main() and its callees
    session,          \* the browser session: "none", "open", "released"
    files,            \* the output files that exist in the data directory
    error,            \* the exception that ended the run, or NoError
    titles,           \* texts of the collapsed panel links of the loaded page
    current_url,      \* driver.current_url
    site,             \* content of the panels the portal serves in this run
    vmp,              \* visit_main_page: [i, caller, loads, checked, passed]
    osp,              \* open_submission_panel: [attempt, i, stale, reloads, tries,
                      \* issue, blocked]; blocked: in this try the page itself
                      \* refused the click on a valid handle or did not show
                      \* the panel in time
    ps,               \* parse_submissions: [panels, panel, page]
    subs_container,   \* parse_submissions: the records collected so far
    submissions_data, \* main: the envelope returned by parse_submissions
    json_doc,         \* content of submissions_data.json
    csv_rows          \* content of submissions_data.csv

fnVars == <<call, ret>>
runVars == <<pc, session, files, error, titles, current_url, site, vmp, osp,
             ps, subs_container, submissions_data, json_doc, csv_rows>>
vars == <<call, ret, pc, session, files, error, titles, current_url, site,
          vmp, osp, ps, subs_container, submissions_data, json_doc, csv_rows>>

---------------------------------------------------------------------------
(* Bounds of the model *)

MaxTitles == 2
MaxSections == 2
MaxPages == 2

(* Program constants *)

MIN_SUBMISSIONS_SANITY_CHECK == 486
MAX_RETRIES == 3
DEFAULT_TIMEOUT == 20

RELEVANT_ENTITY_TYPES ==
    {"IGO", "NAO", "NGO", "Elections Chairs and Coordinators", "Party", "UN",
     "Observer State"}

BASE_PATH == <<"/sites/submissionsstaging", "/Pages/Home.aspx">>
SUBMISSIONS_URL == <<"https://www4.unfccc.int">> \o BASE_PATH

Absent == "<absent>"
None == "<None>"

SeqsUpTo(S, n) == UNION {[1..k -> S] : k \in 0..n}

---------------------------------------------------------------------------
(* re.search(r"(?<=\()[0-9]+(?=\))", text) and int() *)

Digits == {"0", "1", "2", "3", "4", "5", "6", "7", "8", "9"}

DigitVal(c) ==
    CASE c = "0" -> 0 [] c = "1" -> 1 [] c = "2" -> 2 [] c = "3" -> 3
      [] c = "4" -> 4 [] c = "5" -> 5 [] c = "6" -> 6 [] c = "7" -> 7
      [] c = "8" -> 8 [] c = "9" -> 9

\* first index >= i of text that holds no digit (Len(text) + 1 when none)
RECURSIVE DigitRunEnd(_, _)
DigitRunEnd(text, i) ==
    IF i > Len(text) \/ text[i] \notin Digits THEN i
    ELSE DigitRunEnd(text, i + 1)

\* the pattern matches at i: "(" right before i, one or more digits from i,
\* ")" right after the digits
MatchesAt(text, i) ==
    /\ i >= 2
    /\ text[i - 1] = "("
    /\ DigitRunEnd(text, i) > i
    /\ DigitRunEnd(text, i) <= Len(text)
    /\ text[DigitRunEnd(text, i)] = ")"

\* the leftmost match, as [found, group]
re_search(text) ==
    LET hits == {i \in 1..Len(text) : MatchesAt(text, i)}
    IN  IF hits = {} THEN [found |-> FALSE, group |-> <<>>]
        ELSE LET i == CHOOSE h \in hits : \A g \in hits : h <= g
             IN  [found |-> TRUE,
                  group |-> SubSeq(text, i, DigitRunEnd(text, i) - 1)]

RECURSIVE int(_)
int(digits) ==
    IF digits = <<>> THEN 0
    ELSE 10 * int(SubSeq(digits, 1, Len(digits) - 1))
         + DigitVal(digits[Len(digits)])

---------------------------------------------------------------------------
(* minimum_of_submissions_sanity_check *)

\* the loop over panel_titles from title k on, doc_count being the sum so far
RECURSIVE SanityLoop(_, _, _, _)
SanityLoop(panel_titles, k, doc_count, min_heuristic) ==
    IF k > Len(panel_titles) THEN doc_count >= min_heuristic
    ELSE LET n == re_search(panel_titles[k])
         IN  IF n.found
             THEN SanityLoop(panel_titles, k + 1, doc_count + int(n.group),
                             min_heuristic)
             ELSE FALSE

\* a variant that skips a title without a count instead of returning False
RECURSIVE SanityLoopSkipping(_, _, _, _)
SanityLoopSkipping(panel_titles, k, doc_count, min_heuristic) ==
    IF k > Len(panel_titles) THEN doc_count >= min_heuristic
    ELSE LET n == re_search(panel_titles[k])
         IN  SanityLoopSkipping(panel_titles, k + 1,
                 doc_count + (IF n.found THEN int(n.group) ELSE 0),
                 min_heuristic)

sanity_check_skipping(panel_titles, min_heuristic) ==
    SanityLoopSkipping(panel_titles, 1, 0, min_heuristic)

minimum_of_submissions_sanity_check(panel_titles, min_heuristic) ==
    SanityLoop(panel_titles, 1, 0, min_heuristic)

---------------------------------------------------------------------------
(* Panel titles *)

TitleCurrent6 == <<"C", "u", "r", " ", "(", "6", ")">>
TitlePrevious480 == <<"P", "r", "e", "v", " ", "(", "4", "8", "0", ")">>
TitlePrevious486 == <<"P", "r", "e", "v", " ", "(", "4", "8", "6", ")">>
TitlePrevious3 == <<"P", "r", "e", "v", " ", "(", "3", ")">>
TitleNoCount == <<"P", "r", "e", "v">>
TitleUnclosed == <<"P", " ", "(", "4", "8", "6">>
TitleEmptyParens == <<"P", " ", "(", ")">>
TitleNote480 == <<"(", "x", ")", " ", "(", "4", "8", "0", ")">>

TitleSet ==
    {TitleCurrent6, TitlePrevious480, TitlePrevious486, TitlePrevious3,
     TitleNoCount, TitleUnclosed, TitleEmptyParens, TitleNote480}

ThresholdSet == {MIN_SUBMISSIONS_SANITY_CHECK, 9}

---------------------------------------------------------------------------
(* Python values: str.replace, dict *)

IsPrefixAt(s, old, i) ==
    /\ i + Len(old) - 1 <= Len(s)
    /\ SubSeq(s, i, i + Len(old) - 1) = old

\* s.replace(old, new) for a non-empty old: every occurrence, left to right,
\* the text put in is not searched again
RECURSIVE ReplaceFrom(_, _, _, _)
ReplaceFrom(s, old, new, i) ==
    IF i > Len(s) THEN <<>>
    ELSE IF IsPrefixAt(s, old, i)
         THEN new \o ReplaceFrom(s, old, new, i + Len(old))
         ELSE <<s[i]>> \o ReplaceFrom(s, old, new, i + 1)

str_replace(s, old, new) == ReplaceFrom(s, old, new, 1)

\* an insertion-ordered dict is a sequence of [k, v] with distinct keys
DictKeys(d) == {d[i].k : i \in 1..Len(d)}

DictGet(d, key) == (CHOOSE e \in {d[i] : i \in 1..Len(d)} : e.k = key).v

\* a variant that keeps what the key already holds and extends it
DictSetExtending(d, key, value) ==
    IF key \in DictKeys(d)
    THEN [i \in 1..Len(d) |->
             IF d[i].k = key THEN [k |-> key, v |-> d[i].v \o value] ELSE d[i]]
    ELSE Append(d, [k |-> key, v |-> value])

\* d[key] = value: an existing key keeps its position
DictSet(d, key, value) ==
    IF key \in DictKeys(d)
    THEN [i \in 1..Len(d) |->
             IF d[i].k = key THEN [k |-> key, v |-> value] ELSE d[i]]
    ELSE Append(d, [k |-> key, v |-> value])

\* {**a, **b}
Merge(a, b) ==
    [key \in DOMAIN a \cup DOMAIN b |->
        IF key \in DOMAIN b THEN b[key] ELSE a[key]]

---------------------------------------------------------------------------
(* find_text_element, _parse_submissions *)

\* the text of the node, None when the node does not exist
find_text_element(node) == IF node = Absent THEN None ELSE node

\* WebElement.get_attribute: None when the attribute does not exist
get_attribute(attr) == IF attr = Absent THEN None ELSE attr

\* a bug that lets every labelled section through
IsRelevantAnyLabel(entity_type) == entity_type # None

IsRelevant(entity_type) == entity_type \in RELEVANT_ENTITY_TYPES

\* a bug that rebuilds the URL from the domain alone
sub_url_domain_only(url, fileref) == <<url[1]>> \o fileref

\* driver.current_url.replace(BASE_PATH, fileref); fileref is not None
sub_url(url, fileref) == str_replace(url, BASE_PATH, fileref)

\* str.replace raises TypeError when its second argument is None
RowRaises(submission) == get_attribute(submission.fileref) = None

ParseRow(submission, url) ==
    [submission_name |-> find_text_element(submission.filename),
     submission_entity |-> find_text_element(submission.entity),
     submission_language |-> find_text_element(submission.language),
     submission_date |-> find_text_element(submission.submissiondate),
     submission_url |-> sub_url(url, get_attribute(submission.fileref))]

ParseRows(submissions, url) ==
    [j \in 1..Len(submissions) |-> ParseRow(submissions[j], url)]

\* the loop over submission_sections from section k on
RECURSIVE SectionsLoop(_, _, _, _)
SectionsLoop(submission_sections, k, submissions, url) ==
    IF k > Len(submission_sections) THEN submissions
    ELSE LET entity_type == get_attribute(submission_sections[k].entitytype)
         IN  IF IsRelevant(entity_type)
             THEN SectionsLoop(submission_sections, k + 1,
                      DictSet(submissions, entity_type,
                              ParseRows(submission_sections[k].rows, url)),
                      url)
             ELSE SectionsLoop(submission_sections, k + 1, submissions, url)

GridRaises(submission_grid) ==
    \E k \in 1..Len(submission_grid.sections) :
        /\ IsRelevant(get_attribute(submission_grid.sections[k].entitytype))
        /\ \E j \in 1..Len(submission_grid.sections[k].rows) :
               RowRaises(submission_grid.sections[k].rows[j])

ParseGrid(submission_grid, url) ==
    [issue |-> find_text_element(submission_grid.issue),
     deadline |-> find_text_element(submission_grid.deadline),
     title |-> find_text_element(submission_grid.cfstitle),
     mandate |-> find_text_element(submission_grid.mandate),
     submissions |-> SectionsLoop(submission_grid.sections, 1, <<>>, url)]

\* [raised |-> TRUE] when a row makes str.replace raise, else the records
_parse_submissions(submission_grids, url) ==
    IF \E g \in 1..Len(submission_grids) : GridRaises(submission_grids[g])
    THEN [raised |-> TRUE, val |-> <<>>]
    ELSE [raised |-> FALSE,
          val |-> [g \in 1..Len(submission_grids) |->
                      ParseGrid(submission_grids[g], url)]]

---------------------------------------------------------------------------
(* write_to_json, write_to_csv *)

\* f"issue_{_}" if _ not in ["issue", "submissions"] else _
IssueKey(key) ==
    CASE key = "issue" -> "issue"
      [] key = "submissions" -> "submissions"
      [] key = "deadline" -> "issue_deadline"
      [] key = "title" -> "issue_title"
      [] key = "mandate" -> "issue_mandate"

\* {k: v for k, v in zip(new_keys, issue.values())}
RenameIssue(issue) ==
    [nk \in {IssueKey(key) : key \in DOMAIN issue} |->
        issue[CHOOSE key \in DOMAIN issue : IssueKey(key) = nk]]

Without(d, key) == [x \in DOMAIN d \ {key} |-> d[x]]

\* a bug that appends once per bucket, after the loop over its submissions
BucketRowsLastOnly(submission_entity_type, submission_list, issue) ==
    IF submission_list = <<>> THEN <<>>
    ELSE <<Merge(Merge(submission_list[Len(submission_list)],
                       [entity_type |-> submission_entity_type]), issue)>>

\* the rows appended for one bucket
BucketRows(submission_entity_type, submission_list, issue) ==
    [j \in 1..Len(submission_list) |->
        Merge(Merge(submission_list[j],
                    [entity_type |-> submission_entity_type]), issue)]

RECURSIVE BucketsLoop(_, _, _)
BucketsLoop(issue_specific_submissions, k, issue) ==
    IF k > Len(issue_specific_submissions) THEN <<>>
    ELSE BucketRows(issue_specific_submissions[k].k,
                    issue_specific_submissions[k].v, issue)
         \o BucketsLoop(issue_specific_submissions, k + 1, issue)

RECURSIVE IssuesLoop(_, _, _)
IssuesLoop(submissions_all, k, meta) ==
    IF k > Len(submissions_all) THEN <<>>
    ELSE LET issue == Merge(RenameIssue(submissions_all[k]), meta)
         IN  BucketsLoop(issue.submissions, 1, Without(issue, "submissions"))
             \o IssuesLoop(submissions_all, k + 1, meta)

\* the list of dicts handed to pd.DataFrame
Container(envelope) ==
    IssuesLoop(envelope.submissions_data, 1,
               Without(envelope, "submissions_data"))

\* a CSV cell: None and a missing key are written as the empty string
Cell(row, column) ==
    IF column \notin DOMAIN row \/ row[column] = None THEN "" ELSE row[column]

\* pd.DataFrame(container).to_csv: an index column, then the union of the keys
to_csv(container) ==
    LET columns == UNION {DOMAIN container[i] : i \in 1..Len(container)}
    IN  [i \in 1..Len(container) |->
            [column \in columns \cup {"index"} |->
                IF column = "index" THEN i - 1
                ELSE Cell(container[i], column)]]

write_to_csv(envelope) == to_csv(Container(envelope))

\* what write_to_csv leaves in the dicts of the records list it was given:
\* submission_metadata["entity_type"] = submission_entity_type
WithEntityType(submissions_all) ==
    [c \in 1..Len(submissions_all) |->
        [submissions_all[c] EXCEPT !.submissions =
            [b \in 1..Len(@) |->
                [k |-> @[b].k,
                 v |-> [j \in 1..Len(@[b].v) |->
                           Merge(@[b].v[j], [entity_type |-> @[b].k])]]]]]

\* json.dump of a str or None
json_value(value) == IF value = None THEN "null" ELSE value

json_object(d) == [key \in DOMAIN d |-> json_value(d[key])]

\* json.dump of one record: the ordered dict of buckets becomes an object
json_issue(issue) ==
    [key \in DOMAIN issue |->
        IF key = "submissions"
        THEN [b \in 1..Len(issue.submissions) |->
                 [k |-> issue.submissions[b].k,
                  v |-> [j \in 1..Len(issue.submissions[b].v) |->
                            json_object(issue.submissions[b].v[j])]]]
        ELSE json_value(issue[key])]

\* json.dump(submissions_data, f, indent=4)
json_dump(envelope) ==
    [key \in DOMAIN envelope |->
        IF key = "submissions_data"
        THEN [c \in 1..Len(envelope.submissions_data) |->
                 json_issue(envelope.submissions_data[c])]
        ELSE envelope[key]]

---------------------------------------------------------------------------
(* The DOM of the portal *)

FileRefA == <<"/sites/SubmissionsStaging/Documents", "/a.pdf">>
FileRefB == <<"/sites/SubmissionsStaging/Documents", "/b.pdf">>

RowA == [filename |-> "a.pdf", entity |-> "Chile", language |-> "English",
         submissiondate |-> "01/06/2022", fileref |-> FileRefA]
RowB == [filename |-> "b.pdf", entity |-> Absent, language |-> Absent,
         submissiondate |-> Absent, fileref |-> FileRefB]
RowNoText == [filename |-> Absent, entity |-> Absent, language |-> Absent,
              submissiondate |-> Absent, fileref |-> FileRefA]
RowNoRef == [filename |-> "c.pdf", entity |-> "Peru", language |-> "Spanish",
             submissiondate |-> "02/06/2022", fileref |-> Absent]

RowLists ==
    {<<>>, <<RowA>>, <<RowA, RowB>>, <<RowNoText>>, <<RowB, RowNoRef>>}

LabelSet == {"Party", "NGO", "Lobby", Absent}

SectionSet == {[entitytype |-> l, rows |-> r] : l \in LabelSet, r \in RowLists}

Header(present) ==
    IF present
    THEN [issue |-> "Adaptation", deadline |-> "30/06/2022",
          cfstitle |-> "Views on adaptation", mandate |-> "FCCC/SBI/2022/1"]
    ELSE [issue |-> Absent, deadline |-> Absent, cfstitle |-> Absent,
          mandate |-> Absent]

Grid(present, sections) ==
    Merge(Header(present), [sections |-> sections])

GridSet ==
    {Grid(h, s) : h \in BOOLEAN, s \in SeqsUpTo(SectionSet, MaxSections)}

GridPartyAB == Grid(TRUE, <<[entitytype |-> "Party", rows |-> <<RowA, RowB>>]>>)
GridNgoA == Grid(TRUE, <<[entitytype |-> "NGO", rows |-> <<RowA>>]>>)
GridTwoBuckets ==
    Grid(FALSE, <<[entitytype |-> "NGO", rows |-> <<RowNoText>>],
                  [entitytype |-> "Lobby", rows |-> <<RowA>>],
                  [entitytype |-> Absent, rows |-> <<RowB>>],
                  [entitytype |-> "Party", rows |-> <<RowB, RowA>>]>>)
GridEmpty == Grid(TRUE, <<>>)
GridNoRef == Grid(TRUE, <<[entitytype |-> "Party", rows |-> <<RowNoRef>>]>>)

SmallGridSet == {GridPartyAB, GridNgoA, GridTwoBuckets, GridEmpty}

\* page URLs that hold the base path once
UrlSet ==
    {SUBMISSIONS_URL,
     SUBMISSIONS_URL \o <<"#">>,
     <<"https://www4.unfccc.int", "/sites/submissionsstaging", "/en">>
         \o BASE_PATH \o <<"?tab=1">>}

CollectedAt == "07-06-2022 12:00:00"

Envelope(records) ==
    [data_source |-> SUBMISSIONS_URL, collected_at |-> CollectedAt,
     submissions_data |-> records]

---------------------------------------------------------------------------
(* SpecFn: the pure functions on bounded inputs *)

NotDone == [done |-> FALSE]

CheckCalls ==
    {[op |-> "sanity_check", panel_titles |-> t, min_heuristic |-> m] :
        t \in SeqsUpTo(TitleSet, MaxTitles), m \in ThresholdSet}

ParseCalls ==
    {[op |-> "parse", submission_grids |-> <<g>>, url |-> SUBMISSIONS_URL] :
        g \in GridSet}
    \cup {[op |-> "parse", submission_grids |-> gl, url |-> u] :
             gl \in SeqsUpTo(SmallGridSet, 2), u \in UrlSet}

CsvCalls ==
    {[op |-> "write_to_csv",
      envelope |-> Envelope(_parse_submissions(gl, SUBMISSIONS_URL).val)] :
        gl \in SeqsUpTo(SmallGridSet, 2)}

CallSet == CheckCalls \cup ParseCalls \cup CsvCalls

RunIdle ==
    /\ pc = "idle"
    /\ session = "none"
    /\ files = {}
    /\ error = "NoError"
    /\ titles = <<>>
    /\ current_url = <<>>
    /\ site = <<>>
    /\ vmp = <<>>
    /\ osp = <<>>
    /\ ps = <<>>
    /\ subs_container = <<>>
    /\ submissions_data = <<>>
    /\ json_doc = <<>>
    /\ csv_rows = <<>>

InitFn ==
    /\ call \in CallSet
    /\ ret = NotDone
    /\ RunIdle

ApplySanityCheck ==
    /\ call.op = "sanity_check"
    /\ ~ret.done
    /\ ret' = [done |-> TRUE,
               val |-> minimum_of_submissions_sanity_check(
                           call.panel_titles, call.min_heuristic)]
    /\ UNCHANGED <<call, runVars>>

ApplyParse ==
    /\ call.op = "parse"
    /\ ~ret.done
    /\ ret' = Merge([done |-> TRUE],
                    _parse_submissions(call.submission_grids, call.url))
    /\ UNCHANGED <<call, runVars>>

ApplyWriteCsv ==
    /\ call.op = "write_to_csv"
    /\ ~ret.done
    /\ ret' = [done |-> TRUE, val |-> write_to_csv(call.envelope)]
    /\ UNCHANGED <<call, runVars>>

NextFn ==
    \/ ApplySanityCheck
    \/ ApplyParse
    \/ ApplyWriteCsv

SpecFn == InitFn /\ [][NextFn]_vars

---------------------------------------------------------------------------
(* Spec: one run of main() *)

\* what a load of the main page may show: the server serves varying numbers
\* of documents
LoadedTitles ==
    {<<TitleCurrent6, TitlePrevious480>>,
     <<TitleCurrent6, TitlePrevious3>>,
     <<TitlePrevious486, TitleNoCount>>,
     <<TitlePrevious486>>}

MaxPanels == 2

\* a site: the number of pages of each panel, and the page (panel, page)
\* that holds a row without a fileref attribute (<<0, 0>>: none)
SiteSet ==
    {[pages |-> n, noref |-> r] :
        n \in [1..MaxPanels -> 1..MaxPages], r \in {<<0, 0>>, <<1, 2>>, <<2, 1>>}}

GridAt(s, p, k, g) ==
    Merge([issue |-> <<"issue", p, k, g>>, deadline |-> "30/06/2022",
           cfstitle |-> Absent, mandate |-> "FCCC/SBI/2022/1"],
          [sections |->
              IF g = 1
              THEN <<[entitytype |-> "Party", rows |-> <<RowA, RowB>>]>>
              ELSE <<[entitytype |-> "NGO",
                      rows |-> IF s.noref = <<p, k>> THEN <<RowNoRef>>
                               ELSE <<RowNoText>>],
                     [entitytype |-> "Lobby", rows |-> <<RowA>>]>>])

\* the grid cells the open panel p renders on its page k
PageGrids(s, p, k) == <<GridAt(s, p, k, 1), GridAt(s, p, k, 2)>>

\* the next-page control exists on every page of a panel but the last
HasNextPage(s, p, k) == k < s.pages[p]

NoError == "NoError"
WebDriverError == "WebDriverException"
LoadError == "load failed"
NotTrustworthy == "ValueError: data is not trust worthy"
PanelNotLoaded == "ValueError: data was not loaded to the panel"
ParseError == "TypeError"
WaitTimeout == "TimeoutException"
JsonError == "OSError: json"
CsvError == "OSError: csv"

JsonFile == "submissions_data.json"
CsvFile == "submissions_data.csv"

VmpStart(caller) ==
    [i |-> 0, caller |-> caller, loads |-> 0, checked |-> FALSE,
     passed |-> FALSE, fails |-> 0]

OspIdle ==
    [attempt |-> 0, i |-> 0, stale |-> FALSE, reloads |-> 0, tries |-> 0,
     issue |-> FALSE, blocked |-> FALSE]

Init ==
    /\ call = [op |-> "main"]
    /\ ret = NotDone
    /\ pc = "deploy"
    /\ session = "none"
    /\ files = {}
    /\ error = NoError
    /\ titles = <<>>
    /\ current_url = <<>>
    /\ site \in SiteSet
    /\ vmp = VmpStart("main")
    /\ osp = OspIdle
    /\ ps = [panels |-> 0, panel |-> 0, page |-> 0]
    /\ subs_container = <<>>
    /\ submissions_data = <<>>
    /\ json_doc = [complete |-> FALSE, doc |-> <<>>]
    /\ csv_rows = <<>>

\* an uncaught exception ends the run: main has no handler and no finally
Abort(e) ==
    /\ pc' = "failed"
    /\ error' = e

\* a variant in which the handler's own try block would catch the exception
VmpRaiseCaught(e) ==
    IF vmp.caller = "osp"
    THEN pc' = "osp_except" /\ error' = error
    ELSE Abort(e)

\* an exception leaving visit_main_page: the call in main is not guarded, the
\* call in open_submission_panel is made in the except clause, outside its try
VmpRaise(e) == Abort(e)

\* main: driver = deploy_firefox(**kwargs)
DeployFirefox ==
    /\ pc = "deploy"
    /\ \/ /\ session' = "open"
          /\ pc' = "vmp_load"
          /\ vmp' = VmpStart("main")
          /\ error' = error
       \/ /\ Abort(WebDriverError)
          /\ UNCHANGED <<session, vmp>>
    /\ UNCHANGED <<call, ret, files, titles, current_url, site, osp, ps,
                   subs_container, submissions_data, json_doc, csv_rows>>

\* the effect of a _visit_main_page that returns: the page is loaded anew,
\* which invalidates the element handles found on the page before
Loaded(t) ==
    /\ titles' = t
    /\ current_url' = SUBMISSIONS_URL
    /\ osp' = [osp EXCEPT !.stale = (vmp.caller = "osp")]

\* visit_main_page: the first _visit_main_page(driver)
VisitLoad ==
    /\ pc = "vmp_load"
    /\ \/ \E t \in LoadedTitles :
             /\ Loaded(t)
             /\ vmp' = [vmp EXCEPT !.loads = 1, !.checked = FALSE]
             /\ pc' = "vmp_check"
             /\ error' = error
       \/ /\ VmpRaise(LoadError)
          /\ UNCHANGED <<titles, current_url, osp, vmp>>
    /\ UNCHANGED <<call, ret, session, files, site, ps, subs_container,
                   submissions_data, json_doc, csv_rows>>

\* visit_main_page: the while condition, and the return when it is false
VisitCheck ==
    /\ pc = "vmp_check"
    /\ LET ok == minimum_of_submissions_sanity_check(
                     titles, MIN_SUBMISSIONS_SANITY_CHECK)
       IN  /\ vmp' = [vmp EXCEPT !.checked = TRUE, !.passed = ok,
                                 !.fails = IF ok THEN @ ELSE @ + 1]
           /\ pc' = IF ~ok THEN "vmp_reload"
                    ELSE IF vmp.caller = "main" THEN "ps_find"
                    ELSE "osp_resume"
    /\ UNCHANGED <<call, ret, session, files, error, titles, current_url,
                   site, osp, ps, subs_container, submissions_data, json_doc,
                   csv_rows>>

\* visit_main_page: the body of the while loop
VisitReload ==
    /\ pc = "vmp_reload"
    /\ \/ \E t \in LoadedTitles :
             /\ Loaded(t)
             /\ vmp' = [vmp EXCEPT !.loads = @ + 1, !.checked = FALSE,
                                   !.i = @ + 1]
             /\ IF vmp.i + 1 > MAX_RETRIES
                THEN VmpRaise(NotTrustworthy)
                ELSE pc' = "vmp_check" /\ error' = error
       \/ /\ VmpRaise(LoadError)
          /\ UNCHANGED <<titles, current_url, osp, vmp>>
    /\ UNCHANGED <<call, ret, session, files, site, ps, subs_container,
                   submissions_data, json_doc, csv_rows>>

\* parse_submissions: panel_buttons = driver.find_elements(...)
PsFindPanels ==
    /\ pc = "ps_find"
    /\ ps' = [panels |-> Len(titles), panel |-> 1, page |-> 0]
    /\ subs_container' = <<>>
    /\ pc' = "ps_panel"
    /\ UNCHANGED <<call, ret, session, files, error, titles, current_url,
                   site, vmp, osp, submissions_data, json_doc, csv_rows>>

\* a variant that saves what was collected each time a panel is finished
PsPanelCheckpoint ==
    /\ pc = "ps_panel"
    /\ IF ps.panel <= ps.panels
       THEN /\ osp' = [OspIdle EXCEPT !.stale = osp.stale, !.tries = 1]
            /\ pc' = "osp_click"
            /\ files' = IF ps.panel > 1 THEN files \cup {JsonFile} ELSE files
            /\ UNCHANGED submissions_data
       ELSE /\ submissions_data' = Envelope(subs_container)
            /\ pc' = "write_json"
            /\ UNCHANGED <<osp, files>>
    /\ UNCHANGED <<call, ret, session, error, titles, current_url, site,
                   vmp, ps, subs_container, json_doc, csv_rows>>

\* parse_submissions: the head of the loop over panel_buttons, the call of
\* open_submission_panel, and the return of the envelope after the loop
PsPanel ==
    /\ pc = "ps_panel"
    /\ IF ps.panel <= ps.panels
       THEN /\ osp' = [OspIdle EXCEPT !.stale = osp.stale, !.tries = 1]
            /\ pc' = "osp_click"
            /\ UNCHANGED submissions_data
       ELSE /\ submissions_data' = Envelope(subs_container)
            /\ pc' = "write_json"
            /\ UNCHANGED osp
    /\ UNCHANGED <<call, ret, session, files, error, titles, current_url,
                   site, vmp, ps, subs_container, json_doc, csv_rows>>

\* _open_submission_panel: panel_button.click() in its retry loop; the click
\* on a stale handle raises StaleElementReferenceException
OspClick ==
    /\ pc = "osp_click"
    /\ \/ /\ ~osp.stale
          /\ pc' = "osp_wait_area"
          /\ UNCHANGED osp
       \/ /\ osp' = [osp EXCEPT
                        !.i = IF osp.i > DEFAULT_TIMEOUT THEN @ ELSE @ + 1,
                        !.blocked = @ \/ ~osp.stale]
          /\ pc' = IF osp.i > DEFAULT_TIMEOUT THEN "osp_except" ELSE pc
    /\ UNCHANGED <<call, ret, session, files, error, titles, current_url,
                   site, vmp, ps, subs_container, submissions_data, json_doc,
                   csv_rows>>

\* _open_submission_panel: the wait for the submissioncallarea
OspWaitArea ==
    /\ pc = "osp_wait_area"
    /\ \/ pc' = "osp_wait_issue" /\ UNCHANGED osp
       \/ pc' = "osp_except" /\ osp' = [osp EXCEPT !.blocked = TRUE]
    /\ UNCHANGED <<call, ret, session, files, error, titles, current_url,
                   site, vmp, ps, subs_container, submissions_data,
                   json_doc, csv_rows>>

\* open_submission_panel: the wait for the issue element, then break
OspWaitIssue ==
    /\ pc = "osp_wait_issue"
    /\ \/ /\ osp' = [osp EXCEPT !.issue = TRUE]
          /\ ps' = [ps EXCEPT !.page = 1]
          /\ pc' = "ps_parse"
       \/ /\ pc' = "osp_except"
          /\ osp' = [osp EXCEPT !.blocked = TRUE]
          /\ UNCHANGED ps
    /\ UNCHANGED <<call, ret, session, files, error, titles, current_url,
                   site, vmp, subs_container, submissions_data, json_doc,
                   csv_rows>>

\* a variant with the comparison off by one
MayRetryInclusive(attempt, max_attempts) == attempt <= max_attempts

\* open_submission_panel: if attempt < max_attempts
MayRetry(attempt, max_attempts) == attempt < max_attempts

\* open_submission_panel: the except clause
OspExcept ==
    /\ pc = "osp_except"
    /\ IF MayRetry(osp.attempt, MAX_RETRIES)
       THEN /\ vmp' = VmpStart("osp")
            /\ osp' = [osp EXCEPT !.reloads = @ + 1]
            /\ pc' = "vmp_load"
            /\ error' = error
       ELSE /\ Abort(PanelNotLoaded)
            /\ UNCHANGED <<vmp, osp>>
    /\ UNCHANGED <<call, ret, session, files, titles, current_url, site, ps,
                   subs_container, submissions_data, json_doc, csv_rows>>

\* open_submission_panel: after visit_main_page returned, sleep, attempt += 1
\* and the next pass of the loop
OspResume ==
    /\ pc = "osp_resume"
    /\ osp' = [osp EXCEPT !.attempt = @ + 1, !.i = 0, !.tries = @ + 1,
                          !.issue = FALSE, !.blocked = FALSE]
    /\ pc' = "osp_click"
    /\ UNCHANGED <<call, ret, session, files, error, titles, current_url,
                   site, vmp, ps, subs_container, submissions_data, json_doc,
                   csv_rows>>

\* parse_submissions: subs_container.extend(_parse_submissions(driver))
PsParse ==
    /\ pc = "ps_parse"
    /\ LET r == _parse_submissions(PageGrids(site, ps.panel, ps.page),
                                   current_url)
       IN  IF r.raised
           THEN Abort(ParseError) /\ UNCHANGED subs_container
           ELSE /\ subs_container' = subs_container \o r.val
                /\ pc' = "ps_next"
                /\ error' = error
    /\ UNCHANGED <<call, ret, session, files, titles, current_url, site,
                   vmp, osp, ps, submissions_data, json_doc, csv_rows>>

\* parse_submissions: find the next-page control and click it; the bare
\* except ends the loop when the find or the click raises
PsNext ==
    /\ pc = "ps_next"
    /\ \/ /\ HasNextPage(site, ps.panel, ps.page)
          /\ ps' = [ps EXCEPT !.page = @ + 1]
          /\ pc' = "ps_wait"
       \/ /\ HasNextPage(site, ps.panel, ps.page)
          /\ ps' = [ps EXCEPT !.panel = @ + 1, !.page = 0]
          /\ pc' = "ps_panel"
       \/ /\ ~HasNextPage(site, ps.panel, ps.page)
          /\ ps' = [ps EXCEPT !.panel = @ + 1, !.page = 0]
          /\ pc' = "ps_panel"
    /\ UNCHANGED <<call, ret, session, files, error, titles, current_url,
                   site, vmp, osp, subs_container, submissions_data,
                   json_doc, csv_rows>>

\* parse_submissions: the wait after the click, scroll and sleep
PsWait ==
    /\ pc = "ps_wait"
    /\ \/ pc' = "ps_parse" /\ error' = error
       \/ Abort(WaitTimeout)
    /\ UNCHANGED <<call, ret, session, files, titles, current_url, site,
                   vmp, osp, ps, subs_container, submissions_data, json_doc,
                   csv_rows>>

\* main: os.mkdir when needed and write_to_json; the file exists from open()
\* on, so a failure of json.dump leaves a truncated file
WriteJson ==
    /\ pc = "write_json"
    /\ \/ /\ files' = files \cup {JsonFile}
          /\ json_doc' = [complete |-> TRUE, doc |-> json_dump(submissions_data)]
          /\ pc' = "write_csv"
          /\ error' = error
       \/ /\ files' = files \cup {JsonFile}
          /\ json_doc' = [complete |-> FALSE, doc |-> <<>>]
          /\ Abort(JsonError)
       \/ /\ Abort(JsonError)
          /\ UNCHANGED <<files, json_doc>>
    /\ UNCHANGED <<call, ret, session, titles, current_url, site, vmp, osp,
                   ps, subs_container, submissions_data, csv_rows>>

\* a variant that reads the records list and leaves it in the envelope
WriteCsvNoPop ==
    /\ pc = "write_csv"
    /\ submissions_data' = submissions_data
    /\ subs_container' = WithEntityType(subs_container)
    /\ \/ /\ files' = files \cup {CsvFile}
          /\ csv_rows' = write_to_csv(submissions_data)
          /\ pc' = "kill"
          /\ error' = error
       \/ /\ Abort(CsvError)
          /\ UNCHANGED <<files, csv_rows>>
    /\ UNCHANGED <<call, ret, session, titles, current_url, site, vmp, osp,
                   ps, json_doc>>

\* main: write_to_csv; the records list is popped off the caller's envelope
\* and its submission dicts (the list collected in subs_container) get the
\* entity_type key; the file is written last, so both are done when the
\* write fails
WriteCsv ==
    /\ pc = "write_csv"
    /\ submissions_data' = Without(submissions_data, "submissions_data")
    /\ subs_container' = WithEntityType(subs_container)
    /\ \/ /\ files' = files \cup {CsvFile}
          /\ csv_rows' = write_to_csv(submissions_data)
          /\ pc' = "kill"
          /\ error' = error
       \/ /\ Abort(CsvError)
          /\ UNCHANGED <<files, csv_rows>>
    /\ UNCHANGED <<call, ret, session, titles, current_url, site, vmp, osp,
                   ps, json_doc>>

\* main: kill_webdriver(driver)
KillWebdriver ==
    /\ pc = "kill"
    /\ session' = "released"
    /\ pc' = "done"
    /\ UNCHANGED <<call, ret, files, error, titles, current_url, site, vmp,
                   osp, ps, subs_container, submissions_data, json_doc,
                   csv_rows>>

Next ==
    \/ DeployFirefox
    \/ VisitLoad
    \/ VisitCheck
    \/ VisitReload
    \/ PsFindPanels
    \/ PsPanel
    \/ OspClick
    \/ OspWaitArea
    \/ OspWaitIssue
    \/ OspExcept
    \/ OspResume
    \/ PsParse
    \/ PsNext
    \/ PsWait
    \/ WriteJson
    \/ WriteCsv
    \/ KillWebdriver

Spec == Init /\ [][Next]_vars

---------------------------------------------------------------------------
(* Properties *)

SanityDone == call.op = "sanity_check" /\ ret.done
ParseDone == call.op = "parse" /\ ret.done
CsvDone == call.op = "write_to_csv" /\ ret.done

\* the number in the parenthesized suffix of a title, 0 when it has none
SuffixCount(title) ==
    LET ends == {i \in 1..Len(title) :
                    MatchesAt(title, i) /\ DigitRunEnd(title, i) = Len(title)}
    IN  IF ends = {} THEN 0
        ELSE int(SubSeq(title, CHOOSE i \in ends : TRUE, Len(title) - 1))

\* the first parenthesized number of a title, 0 when it has none
FirstCount(title) ==
    IF re_search(title).found THEN int(re_search(title).group) ELSE 0

HasCount(title) == \E i \in 1..Len(title) : MatchesAt(title, i)

RECURSIVE SuffixSum(_, _)
SuffixSum(panel_titles, k) ==
    IF k > Len(panel_titles) THEN 0
    ELSE SuffixCount(panel_titles[k]) + SuffixSum(panel_titles, k + 1)

RECURSIVE FirstSum(_, _)
FirstSum(panel_titles, k) ==
    IF k > Len(panel_titles) THEN 0
    ELSE FirstCount(panel_titles[k]) + FirstSum(panel_titles, k + 1)

\* C1 as stated: the sanity check returns true if and only if the sum of the
\* numbers in the parenthesized suffixes of the titles is at least the
\* threshold, also when some title carries no parenthesized number.
C1_TrueIffSuffixSumReachesThreshold ==
    SanityDone =>
        (ret.val <=> SuffixSum(call.panel_titles, 1)
                         >= call.min_heuristic)

\* C1 amended: the sanity check returns true if and only if every title
\* holds a parenthesized number and the sum of these numbers (the first one
\* of each title) is at least the threshold.
C1_TrueIffAllCountedAndSumReachesThreshold ==
    SanityDone =>
        (ret.val <=>
            /\ \A k \in 1..Len(call.panel_titles) :
                   HasCount(call.panel_titles[k])
            /\ FirstSum(call.panel_titles, 1)
                   >= call.min_heuristic)

\* a title without a count beside titles whose counts reach the threshold
C1_Witness ==
    /\ SanityDone
    /\ \E k \in 1..Len(call.panel_titles) : ~HasCount(call.panel_titles[k])
    /\ SuffixSum(call.panel_titles, 1) >= call.min_heuristic
    /\ call.min_heuristic = MIN_SUBMISSIONS_SANITY_CHECK
    /\ ret.val = FALSE

\* the output files written in full
Written == {f \in files : f = JsonFile => json_doc.complete}

C3_RepeatedSanityFailureIsTerminal ==
    /\ vmp.i > MAX_RETRIES =>
           pc = "failed" /\ error = NotTrustworthy /\ files = {}
    /\ error = NotTrustworthy =>
           /\ pc = "failed"
           /\ vmp.fails = MAX_RETRIES + 1
           /\ vmp.passed = FALSE
           /\ files = {}

\* the ValueError raised by the visit_main_page called from the retry path
C3_Witness ==
    /\ pc = "failed"
    /\ error = NotTrustworthy
    /\ vmp.caller = "osp"
    /\ vmp.fails = MAX_RETRIES + 1

\* C4: every terminated run of main that created a browser session has
\* released it.
C4_TerminatedRunReleasedSession ==
    (pc \in {"done", "failed"} /\ error # WebDriverError) =>
        session = "released"

RECURSIVE PanelRecords(_, _, _, _)
PanelRecords(s, url, p, k) ==
    IF k > s.pages[p] THEN <<>>
    ELSE _parse_submissions(PageGrids(s, p, k), url).val
         \o PanelRecords(s, url, p, k + 1)

RECURSIVE AllRecords(_, _, _, _)
AllRecords(s, url, p, n) ==
    IF p > n THEN <<>>
    ELSE PanelRecords(s, url, p, 1) \o AllRecords(s, url, p + 1, n)

\* C5: when parse_submissions returns, the records list holds every row of
\* every page of every panel exactly once, in page order, whatever the
\* outcomes of the browser actions of the pagination loop were.
C5_EveryPageCollectedInOrder ==
    pc = "write_json" =>
        subs_container = AllRecords(site, current_url, 1, ps.panels)

NullIfAbsent(node, value) ==
    IF node = Absent THEN value = None ELSE value = node

\* C6: parsing never raises, and every field of every record is there, null
\* when its DOM node or attribute is missing.
C6_MissingFieldIsNullNotError ==
    ParseDone =>
        /\ ~ret.raised
        /\ Len(ret.val) = Len(call.submission_grids)
        /\ \A g \in 1..Len(ret.val) :
               /\ NullIfAbsent(call.submission_grids[g].issue, ret.val[g].issue)
               /\ NullIfAbsent(call.submission_grids[g].deadline,
                               ret.val[g].deadline)
               /\ NullIfAbsent(call.submission_grids[g].cfstitle,
                               ret.val[g].title)
               /\ NullIfAbsent(call.submission_grids[g].mandate,
                               ret.val[g].mandate)

\* the sections of a grid that carry label, by position
SectionsLabelled(grid, label) ==
    {k \in 1..Len(grid.sections) : grid.sections[k].entitytype = label}

\* C7: every key of a record's submissions mapping is on the allow-list and
\* is the label of a section of the call row; the rows of the bucket are
\* those of one section with that label; a section whose label is off the
\* list or missing creates no bucket, so none of its rows are in the output.
C7_BucketsOnlyForAllowListedLabels ==
    (ParseDone /\ ~ret.raised) =>
        \A g \in 1..Len(ret.val) :
            LET grid == call.submission_grids[g]
                buckets == ret.val[g].submissions
            IN  /\ DictKeys(buckets) \subseteq RELEVANT_ENTITY_TYPES
                /\ \A b \in 1..Len(buckets) :
                       \E k \in SectionsLabelled(grid, buckets[b].k) :
                           buckets[b].v = ParseRows(grid.sections[k].rows, call.url)
                /\ \A k \in 1..Len(grid.sections) :
                       grid.sections[k].entitytype \notin RELEVANT_ENTITY_TYPES
                           => grid.sections[k].entitytype \notin DictKeys(buckets)
                /\ \A b1, b2 \in 1..Len(buckets) :
                       buckets[b1].k = buckets[b2].k => b1 = b2

\* a call row with an allow-listed section, a section labelled "Lobby" that
\* has rows, and a section without a label
C7_Witness ==
    /\ ParseDone
    /\ ~ret.raised
    /\ \E g \in 1..Len(ret.val) :
           LET grid == call.submission_grids[g]
           IN  /\ \E k \in SectionsLabelled(grid, "Lobby") :
                      grid.sections[k].rows # <<>>
               /\ SectionsLabelled(grid, Absent) # {}
               /\ DictKeys(ret.val[g].submissions) # {}

\* the submissions of an envelope by position: call, bucket, row
SubmissionSlots(envelope) ==
    UNION {UNION {{<<c, b, j>> :
                      j \in 1..Len(envelope.submissions_data[c].submissions[b].v)} :
                  b \in 1..Len(envelope.submissions_data[c].submissions)} :
           c \in 1..Len(envelope.submissions_data)}

Before(s, t) ==
    \/ s[1] < t[1]
    \/ s[1] = t[1] /\ s[2] < t[2]
    \/ s[1] = t[1] /\ s[2] = t[2] /\ s[3] < t[3]

EmptyIfNone(value) == IF value = None THEN "" ELSE value

\* C8: the CSV holds one row per submission, in order; each row carries the
\* issue, deadline, title and mandate of its call, the source and
\* collected_at of the envelope, the entity type of its bucket and the five
\* fields of its own submission.
C8_OneCsvRowPerSubmission ==
    CsvDone =>
        LET e == call.envelope
            slots == SubmissionSlots(e)
        IN  /\ Len(ret.val) = Cardinality(slots)
            /\ \A s \in slots :
                   LET row == ret.val[Cardinality({t \in slots : Before(t, s)}) + 1]
                       issue == e.submissions_data[s[1]]
                       bucket == issue.submissions[s[2]]
                       sub == bucket.v[s[3]]
                   IN  /\ row.issue = EmptyIfNone(issue.issue)
                       /\ row.issue_deadline = EmptyIfNone(issue.deadline)
                       /\ row.issue_title = EmptyIfNone(issue.title)
                       /\ row.issue_mandate = EmptyIfNone(issue.mandate)
                       /\ row.data_source = e.data_source
                       /\ row.collected_at = e.collected_at
                       /\ row.entity_type = bucket.k
                       /\ row.submission_name = EmptyIfNone(sub.submission_name)
                       /\ row.submission_entity
                              = EmptyIfNone(sub.submission_entity)
                       /\ row.submission_language
                              = EmptyIfNone(sub.submission_language)
                       /\ row.submission_date = EmptyIfNone(sub.submission_date)
                       /\ row.submission_url = sub.submission_url

\* an envelope with a call that has two submissions in one bucket and a call
\* that has none
C8_Witness ==
    /\ CsvDone
    /\ \E c \in 1..Len(call.envelope.submissions_data) :
           \E b \in 1..Len(call.envelope.submissions_data[c].submissions) :
               Len(call.envelope.submissions_data[c].submissions[b].v) = 2
    /\ \E c \in 1..Len(call.envelope.submissions_data) :
           call.envelope.submissions_data[c].submissions = <<>>
    /\ Len(ret.val) >= 2

\* the positions at which the base path starts in url
BasePathAt(url) ==
    {n \in 0..Len(url) : IsPrefixAt(url, BASE_PATH, n + 1)}

\* the last section of a grid with each allow-listed label
LastSections(grid) ==
    {k \in 1..Len(grid.sections) :
        /\ grid.sections[k].entitytype \in RELEVANT_ENTITY_TYPES
        /\ \A m \in SectionsLabelled(grid, grid.sections[k].entitytype) :
               m <= k}

\* C9: the submission_url of a row is the page URL with the base path
\* segment replaced by the row's file reference: what precedes the segment
\* and what follows it are those of the page URL.
C9_UrlReplacesBasePathOnly ==
    (ParseDone /\ ~ret.raised) =>
        \A g \in 1..Len(ret.val) :
            \A k \in LastSections(call.submission_grids[g]) :
                LET section == call.submission_grids[g].sections[k]
                    rows == DictGet(ret.val[g].submissions, section.entitytype)
                IN  /\ Len(rows) = Len(section.rows)
                    /\ \A j \in 1..Len(rows) :
                           \A n \in BasePathAt(call.url) :
                               rows[j].submission_url
                                   = SubSeq(call.url, 1, n)
                                     \o section.rows[j].fileref
                                     \o SubSeq(call.url, n + Len(BASE_PATH) + 1,
                                               Len(call.url))

\* a row parsed on a page whose URL has text after the base path and a
\* partial match before it
C9_Witness ==
    /\ ParseDone
    /\ ~ret.raised
    /\ BasePathAt(call.url) = {3}
    /\ Len(call.url) > 3 + Len(BASE_PATH)
    /\ \E g \in 1..Len(ret.val) :
           \E b \in 1..Len(ret.val[g].submissions) :
               ret.val[g].submissions[b].v # <<>>

InPanel == pc \in {"ps_parse", "ps_next", "ps_wait"}

\* C10: open_submission_panel reloads the main page at most MAX_RETRIES
\* times and makes at most MAX_RETRIES + 1 tries, each of at most
\* DEFAULT_TIMEOUT + 2 clicks; a try that fails at the cap ends the run in
\* the ValueError "data was not loaded to the panel"; it returns only after
\* the issue element was found.
C10_PanelRetryCapped ==
    /\ [](/\ osp.attempt <= MAX_RETRIES
          /\ osp.reloads <= MAX_RETRIES
          /\ osp.tries <= MAX_RETRIES + 1
          /\ osp.i <= DEFAULT_TIMEOUT + 1
          /\ error = PanelNotLoaded =>
                 pc = "failed" /\ osp.reloads = MAX_RETRIES /\ ~osp.issue
          /\ InPanel => osp.issue)
    /\ [][(pc = "osp_except" /\ osp.reloads >= MAX_RETRIES) =>
              (pc' = "failed" /\ error' = PanelNotLoaded)]_vars

\* the run ended by open_submission_panel after its last retry
C10_Witness ==
    /\ pc = "failed"
    /\ error = PanelNotLoaded
    /\ osp.reloads = MAX_RETRIES
    /\ osp.tries = MAX_RETRIES + 1

\* C11: a run of visit_main_page calls _visit_main_page at most
\* 1 + MAX_RETRIES times: the first load and at most MAX_RETRIES reloads.
C11_AtMostMaxRetriesReloads ==
    vmp.loads <= 1 + MAX_RETRIES

\* C12: the pagination loop of a panel ends only on a page that shows no
\* next-page control: no step leaves the loop for the next panel while the
\* control is there.
C12_LoopEndsOnlyWithoutNextControl ==
    [][(pc = "ps_next" /\ pc' = "ps_panel") =>
           ~HasNextPage(site, ps.panel, ps.page)]_vars

\* C14: visit_main_page returns only when the page loaded last was checked
\* and passed, and raises the "not trust worthy" ValueError only when the
\* page loaded last was checked and failed.
C14_LastLoadedPageWasChecked ==
    /\ pc \in {"ps_find", "osp_resume"} => vmp.checked /\ vmp.passed
    /\ error = NotTrustworthy => vmp.checked /\ ~vmp.passed

\* C13: a retry of open_submission_panel, made after visit_main_page
\* reloaded a complete page, fails only when the page refused the click or
\* did not show the panel in time: when the panel of the reloaded page can
\* be opened, the retry opens it.
C13_RetryFailsOnlyWhenPanelCannotBeOpened ==
    (pc = "osp_except" /\ osp.tries > 1) => osp.blocked

SubmissionKeys ==
    {"submission_name", "submission_entity", "submission_language",
     "submission_date", "submission_url"}

\* the JSON document holds the records of the list, each submission with its
\* five fields and no other key
JsonHoldsRecords(doc, records) ==
    /\ Len(doc) = Len(records)
    /\ \A c \in 1..Len(records) :
           /\ \A key \in {"issue", "deadline", "title", "mandate"} :
                  doc[c][key] = json_value(records[c][key])
           /\ Len(doc[c].submissions) = Len(records[c].submissions)
           /\ \A b \in 1..Len(records[c].submissions) :
                  /\ doc[c].submissions[b].k = records[c].submissions[b].k
                  /\ Len(doc[c].submissions[b].v)
                         = Len(records[c].submissions[b].v)
                  /\ \A j \in 1..Len(records[c].submissions[b].v) :
                         /\ DOMAIN doc[c].submissions[b].v[j] = SubmissionKeys
                         /\ \A key \in SubmissionKeys :
                                doc[c].submissions[b].v[j][key]
                                    = json_value(
                                          records[c].submissions[b].v[j][key])

\* C15: the CSV file is written only after the whole JSON file; once
\* write_to_json has returned, the JSON file holds the source, collected_at
\* and every collected record, no submission with an entity_type key; once
\* write_to_csv has returned, the envelope in memory has lost its records
\* list and every collected submission has the entity_type of its bucket.
C15_JsonFullBeforeCsvStripsEnvelope ==
    /\ CsvFile \in files => JsonFile \in files /\ json_doc.complete
    /\ pc \in {"write_csv", "kill", "done"} =>
           /\ JsonFile \in files
           /\ json_doc.complete
           /\ DOMAIN json_doc.doc
                  = {"data_source", "collected_at", "submissions_data"}
           /\ json_doc.doc.data_source = SUBMISSIONS_URL
           /\ json_doc.doc.collected_at = CollectedAt
           /\ JsonHoldsRecords(json_doc.doc.submissions_data, subs_container)
    /\ pc = "write_csv" =>
           submissions_data.submissions_data = subs_container
    /\ pc \in {"kill", "done"} =>
           /\ DOMAIN submissions_data = {"data_source", "collected_at"}
           /\ \A c \in 1..Len(subs_container) :
                  \A b \in 1..Len(subs_container[c].submissions) :
                      \A j \in 1..Len(subs_container[c].submissions[b].v) :
                          /\ DOMAIN subs_container[c].submissions[b].v[j]
                                 = SubmissionKeys \cup {"entity_type"}
                          /\ subs_container[c].submissions[b].v[j].entity_type
                                 = subs_container[c].submissions[b].k

\* a successful run that collected submissions with missing text fields
C15_Witness ==
    /\ pc = "done"
    /\ files = {JsonFile, CsvFile}
    /\ \E c \in 1..Len(subs_container) :
           \E b \in 1..Len(subs_container[c].submissions) :
               \E j \in 1..Len(subs_container[c].submissions[b].v) :
                   subs_container[c].submissions[b].v[j].submission_name = None

\* C16: when a call row has several sections with the same allow-listed
\* label, the bucket of that label in the output record holds exactly the
\* rows of the last such section, in DOM order, and none of the earlier ones.
C16_BucketHoldsLastSectionOnly ==
    (ParseDone /\ ~ret.raised) =>
        \A g \in 1..Len(ret.val) :
            \A k \in LastSections(call.submission_grids[g]) :
                LET section == call.submission_grids[g].sections[k]
                    bucket == DictGet(ret.val[g].submissions, section.entitytype)
                IN  /\ section.entitytype \in DictKeys(ret.val[g].submissions)
                    /\ Len(bucket) = Len(section.rows)
                    /\ \A j \in 1..Len(bucket) :
                           bucket[j] = ParseRow(section.rows[j], call.url)

\* a parsed call row with two sections of one allow-listed label, the earlier
\* one with rows that the later one does not have
C16_Witness ==
    /\ ParseDone
    /\ ~ret.raised
    /\ \E g \in 1..Len(ret.val) :
           LET grid == call.submission_grids[g]
           IN  \E k \in LastSections(grid) :
                   \E m \in SectionsLabelled(grid, grid.sections[k].entitytype) :
                       /\ m < k
                       /\ grid.sections[m].rows = <<RowA, RowB>>
                       /\ grid.sections[k].rows = <<RowNoText>>

=============================================================================
